---- MODULE Spec2Model ----
(***************************************************************************)
(* Model of backend/main.py of chronicle: the /api/cluster request         *)
(* handler cluster_tabs and the helpers it calls (generate_embeddings,     *)
(* cluster_embeddings, generate_group_name, assign_color).                 *)
(*                                                                         *)
(* One behaviour is one request.  The two collaborators                    *)
(* (embeddings_model.embed_documents and chat_model.invoke) are the only   *)
(* sources of nondeterminism after the request has been received; the      *)
(* handler is cut into steps at the collaborator calls, and everything the *)
(* code does between two calls is part of the step.                        *)
(*                                                                         *)
(* Strings whose characters matter (urls, chat answers, names) are         *)
(* sequences of one-character strings.  Tab titles, text and keywords only *)
(* feed the prompts handed to the collaborators and are left out of the    *)
(* tab records.                                                            *)
(***************************************************************************)
EXTENDS Integers, Sequences, FiniteSets, TLC

\* ------------------------------------------------------------------ bounds
MaxTabs == 4        \* largest number of tabs in a request
MaxExtra == 1       \* the embedder returns at most Len(tabs) + MaxExtra vectors

\* ------------------------------------------------------- program constants
NameCap == 30       \* name[:30] if len(name) > 30
EpsNum == 2         \* DBSCAN eps = 0.4 = EpsNum / EpsDen
EpsDen == 5
MinSamples == 2     \* DBSCAN min_samples
Noise == -1         \* label of unclustered points

\* ----------------------------------------------------------------- strings
Rep(c, n) == [i \in 1..n |-> c]

Take(s, n) == IF Len(s) > n THEN SubSeq(s, 1, n) ELSE s

RECURSIVE LStrip(_, _)
LStrip(s, chars) ==
    IF s # <<>> /\ Head(s) \in chars THEN LStrip(Tail(s), chars) ELSE s

RECURSIVE RStrip(_, _)
RStrip(s, chars) ==
    IF s # <<>> /\ s[Len(s)] \in chars
    THEN RStrip(SubSeq(s, 1, Len(s) - 1), chars)
    ELSE s

\* str.strip(chars)
Strip(s, chars) == RStrip(LStrip(s, chars), chars)

Whitespace == {" ", "\n", "\t"}

RECURSIVE SplitFrom(_, _, _, _, _)
SplitFrom(s, sep, i, cur, acc) ==
    IF i > Len(s) THEN Append(acc, cur)
    ELSE IF s[i] = sep THEN SplitFrom(s, sep, i + 1, <<>>, Append(acc, cur))
    ELSE SplitFrom(s, sep, i + 1, Append(cur, s[i]), acc)

\* str.split(sep) for a one-character separator
Split(s, sep) == SplitFrom(s, sep, 1, <<>>, <<>>)

\* ------------------------------------------------------------------ inputs
\* "h://a/p": an ordinary url, host "a"
UrlPlain == <<"h", ":", "/", "/", "a", "/", "p">>
\* "a:b": a url without any slash (about:blank)
UrlNoHost == <<"a", ":", "b">>
\* "h://aaaa...a/": a url whose host is longer than the cap on names
UrlLongHost == <<"h", ":", "/", "/">> \o Rep("a", NameCap + 1) \o <<"/">>

URLs == <<UrlPlain, UrlNoHost, UrlLongHost>>

\* TabContent (tabId, url); tab i of a request gets the urls in rotation
\* starting at offset k, and with dup the last tab repeats the first tabId.
MakeTab(i, n, k, dup) ==
    [tabId |-> IF dup /\ i = n /\ n > 1 THEN 1 ELSE i,
     url   |-> URLs[((i + k) % Len(URLs)) + 1]]

Requests ==
    { [i \in 1..n |-> MakeTab(i, n, k, dup)] :
        n \in 0..MaxTabs, k \in 0..(Len(URLs) - 1), dup \in BOOLEAN }

\* embedding vectors the embedder may return
Vectors == { <<1, 0>>, <<1, 1>>, <<0, 1>> }

RECURSIVE SeqsUpTo(_, _)
SeqsUpTo(S, n) ==
    IF n = 0 THEN { <<>> }
    ELSE LET shorter == SeqsUpTo(S, n - 1)
         IN  shorter \cup { Append(s, x) : s \in { t \in shorter : Len(t) = n - 1 }, x \in S }

\* answers of the chat model: empty, quoted and padded, longer than the cap
ContentEmpty == <<>>
ContentQuoted == <<" ", "\"", "D", "e", "v", "\"", "\n">>
ContentLong == Rep("x", NameCap + 2)
Contents == { ContentEmpty, ContentQuoted, ContentLong }

VARIABLES
    tabs,        \* request.tabs
    pc,          \* "start", "naming", "responded", "failed"
    embeddings,  \* what generate_embeddings returned
    labels,      \* what cluster_embeddings returned
    clusters,    \* the dict clusters, in insertion order: <<label, members>>
    cursor,      \* position in clusters of the loop over clusters.items()
    results,     \* the list results
    chatLog,     \* per element of results: how chat_model.invoke ended
    error,       \* the exception that ended the request, or "none"
    embedCalls,  \* number of calls of embeddings_model.embed_documents
    chatCalls    \* number of calls of chat_model.invoke

vars == <<tabs, pc, embeddings, labels, clusters, cursor, results, chatLog,
          error, embedCalls, chatCalls>>

\* ------------------------------------------------------ cluster_embeddings
Dot(a, b) == a[1] * b[1] + a[2] * b[2]

\* cosine distance of a and b is at most eps, that is
\* dot / (|a| |b|) >= 1 - EpsNum / EpsDen, over the integers
WithinEps(a, b) ==
    /\ Dot(a, b) >= 0
    /\ (Dot(a, b) * EpsDen) * (Dot(a, b) * EpsDen)
         >= (EpsDen - EpsNum) * (EpsDen - EpsNum) * Dot(a, a) * Dot(b, b)

\* the eps-neighborhood of point i, the point itself included
Neighborhood(X, i) == { j \in 1..Len(X) : WithinEps(X[i], X[j]) }

\* variant: a core point needs three points in its neighborhood
IsCoreThree(X, i) == Cardinality(Neighborhood(X, i)) >= MinSamples + 1

IsCore(X, i) == Cardinality(Neighborhood(X, i)) >= MinSamples

RECURSIVE Ascending(_)
Ascending(S) ==
    IF S = {} THEN <<>>
    ELSE LET m == CHOOSE x \in S : \A y \in S : x <= y
         IN  <<m>> \o Ascending(S \ {m})

\* the depth-first expansion of one cluster: pop a point, label it if it is
\* unlabeled, and push the unlabeled neighbors of a core point
RECURSIVE DbscanExpand(_, _, _, _)
DbscanExpand(X, lab, stack, labelNum) ==
    IF stack = <<>> THEN lab
    ELSE LET i == stack[Len(stack)]
             rest == SubSeq(stack, 1, Len(stack) - 1)
             fresh == lab[i] = Noise
             lab2 == IF fresh THEN [lab EXCEPT ![i] = labelNum] ELSE lab
             push == IF fresh /\ IsCore(X, i)
                     THEN Ascending({ v \in Neighborhood(X, i) : lab2[v] = Noise })
                     ELSE <<>>
         IN  DbscanExpand(X, lab2, rest \o push, labelNum)

\* the scan over the points in index order: an unlabeled core point starts
\* the next cluster
RECURSIVE DbscanInner(_, _, _, _)
DbscanInner(X, lab, i, labelNum) ==
    IF i > Len(X) THEN lab
    ELSE IF lab[i] # Noise \/ ~IsCore(X, i)
         THEN DbscanInner(X, lab, i + 1, labelNum)
         ELSE DbscanInner(X, DbscanExpand(X, lab, <<i>>, labelNum), i + 1, labelNum + 1)

Dbscan(X) == DbscanInner(X, [i \in 1..Len(X) |-> Noise], 1, 0)

cluster_embeddings(X) ==
    IF Len(X) < 2 THEN [i \in 1..Len(X) |-> 0] ELSE Dbscan(X)

\* ------------------------------------------------- cluster_tabs, grouping
\* variant: the noise label is grouped like any other label
IsNoiseNever(label) == FALSE

IsNoise(label) == label = Noise

Min(a, b) == IF a < b THEN a ELSE b

HasLabel(acc, label) == \E j \in 1..Len(acc) : acc[j].label = label

AddTab(acc, label, tab) ==
    LET acc2 == IF HasLabel(acc, label) THEN acc
                ELSE Append(acc, [label |-> label, tabs |-> <<>>])
    IN  [j \in 1..Len(acc2) |->
            IF acc2[j].label = label
            THEN [acc2[j] EXCEPT !.tabs = Append(@, tab)]
            ELSE acc2[j]]

\* for tab, label in zip(request.tabs, labels): ...
RECURSIVE GroupFrom(_, _, _, _)
GroupFrom(ts, ls, i, acc) ==
    IF i > Min(Len(ts), Len(ls)) THEN acc
    ELSE IF IsNoise(ls[i]) THEN GroupFrom(ts, ls, i + 1, acc)
    ELSE GroupFrom(ts, ls, i + 1, AddTab(acc, ls[i], ts[i]))

Group(ts, ls) == GroupFrom(ts, ls, 1, <<>>)

\* ----------------------------------------------------- generate_group_name
\* the try branch: clean the answer and cap its length
CleanName(content) ==
    Take(Strip(Strip(Strip(content, Whitespace), {"\""}), {"'"}), NameCap)

\* tabs[0].url.split('/')[2] is defined (otherwise IndexError)
FallbackDefined(ts) == ts = <<>> \/ Len(Split(ts[1].url, "/")) >= 3

Unnamed == <<"U", "n", "n", "a", "m", "e", "d", " ", "G", "r", "o", "u", "p">>

\* the except branch
FallbackName(ts) == IF ts # <<>> THEN Split(ts[1].url, "/")[3] ELSE Unnamed

\* -------------------------------------------------------------- assign_color
Palette == <<"blue", "green", "yellow", "purple", "pink", "cyan", "orange", "red">>

assign_color(cluster_id) == Palette[(cluster_id % Len(Palette)) + 1]

\* ------------------------------------------------------------ cluster_tabs
\* variant: every entry is the tabId of the first member
TabIdsOfFirst(ts) == [i \in 1..Len(ts) |-> ts[1].tabId]

TabIdsOf(ts) == [i \in 1..Len(ts) |-> ts[i].tabId]

\* variant: the fast path for an empty request is never taken
IsEmptyRequestNever(ts) == FALSE

IsEmptyRequest(ts) == Len(ts) = 0

\* variant: only empty groups are dropped
TooSmallOne(ts) == Len(ts) < 1

TooSmall(ts) == Len(ts) < 2

MakeResult(c, name) ==
    [id         |-> <<"cluster_", c.label>>,
     name       |-> name,
     color      |-> assign_color(c.label),
     tabIds     |-> TabIdsOf(c.tabs),
     confidence |-> <<8, 10>>]

Init ==
    /\ tabs \in Requests
    /\ pc = "start"
    /\ embeddings = <<>>
    /\ labels = <<>>
    /\ clusters = <<>>
    /\ cursor = 1
    /\ results = <<>>
    /\ chatLog = <<>>
    /\ error = "none"
    /\ embedCalls = 0
    /\ chatCalls = 0

\* if not request.tabs: return []
EmptyReturn ==
    /\ pc = "start"
    /\ IsEmptyRequest(tabs)
    /\ pc' = "responded"
    /\ results' = <<>>
    /\ UNCHANGED <<tabs, embeddings, labels, clusters, cursor, chatLog, error,
                   embedCalls, chatCalls>>

\* embed_documents raises: the exception leaves cluster_tabs
EmbedRaises ==
    /\ pc = "start"
    /\ ~IsEmptyRequest(tabs)
    /\ embedCalls' = embedCalls + 1
    /\ pc' = "failed"
    /\ error' = "EmbeddingUnavailable"
    /\ UNCHANGED <<tabs, embeddings, labels, clusters, cursor, results, chatLog,
                   chatCalls>>

\* embed_documents returns vecs; the labels are computed and the tabs grouped
EmbedReturns ==
    /\ pc = "start"
    /\ ~IsEmptyRequest(tabs)
    /\ \E vecs \in SeqsUpTo(Vectors, Len(tabs) + MaxExtra) :
          /\ embeddings' = vecs
          /\ labels' = cluster_embeddings(vecs)
          /\ clusters' = Group(tabs, cluster_embeddings(vecs))
    /\ embedCalls' = embedCalls + 1
    /\ cursor' = 1
    /\ pc' = "naming"
    /\ UNCHANGED <<tabs, results, chatLog, error, chatCalls>>

\* if len(tabs) < 2: continue
SkipSmall ==
    /\ pc = "naming"
    /\ cursor <= Len(clusters)
    /\ TooSmall(clusters[cursor].tabs)
    /\ cursor' = cursor + 1
    /\ UNCHANGED <<tabs, pc, embeddings, labels, clusters, results, chatLog,
                   error, embedCalls, chatCalls>>

\* chat_model.invoke returns an answer: the try branch of generate_group_name
ChatReturns ==
    /\ pc = "naming"
    /\ cursor <= Len(clusters)
    /\ ~TooSmall(clusters[cursor].tabs)
    /\ \E content \in Contents :
          /\ results' = Append(results, MakeResult(clusters[cursor], CleanName(content)))
          /\ chatLog' = Append(chatLog, [raised |-> FALSE, content |-> content])
    /\ chatCalls' = chatCalls + 1
    /\ cursor' = cursor + 1
    /\ UNCHANGED <<tabs, pc, embeddings, labels, clusters, error, embedCalls>>

\* chat_model.invoke raises: the except branch of generate_group_name, whose
\* own IndexError leaves generate_group_name and cluster_tabs
ChatRaises ==
    /\ pc = "naming"
    /\ cursor <= Len(clusters)
    /\ ~TooSmall(clusters[cursor].tabs)
    /\ chatCalls' = chatCalls + 1
    /\ IF FallbackDefined(clusters[cursor].tabs)
       THEN /\ results' = Append(results,
                   MakeResult(clusters[cursor], FallbackName(clusters[cursor].tabs)))
            /\ chatLog' = Append(chatLog, [raised |-> TRUE, content |-> <<>>])
            /\ cursor' = cursor + 1
            /\ UNCHANGED <<pc, error>>
       ELSE /\ pc' = "failed"
            /\ error' = "IndexError"
            /\ UNCHANGED <<results, chatLog, cursor>>
    /\ UNCHANGED <<tabs, embeddings, labels, clusters, embedCalls>>

\* return results
Return ==
    /\ pc = "naming"
    /\ cursor > Len(clusters)
    /\ pc' = "responded"
    /\ UNCHANGED <<tabs, embeddings, labels, clusters, cursor, results, chatLog,
                   error, embedCalls, chatCalls>>

Next ==
    \/ EmptyReturn
    \/ EmbedRaises
    \/ EmbedReturns
    \/ SkipSmall
    \/ ChatReturns
    \/ ChatRaises
    \/ Return

Spec == Init /\ [][Next]_vars

\* ================================================================== claims
Range(f) == { f[i] : i \in DOMAIN f }

DistinctIds(ts) ==
    \A i, j \in 1..Len(ts) : i # j => ts[i].tabId # ts[j].tabId

RECURSIVE ConcatIds(_, _)
ConcatIds(rs, i) ==
    IF i > Len(rs) THEN <<>> ELSE rs[i].tabIds \o ConcatIds(rs, i + 1)

\* the tabIds of all results, one after the other
AllResultIds == ConcatIds(results, 1)

\* the group a result was built from
ClusterOf(r) == CHOOSE c \in Range(clusters) : c.label = r.id[2]

\* the host of scheme://host/path, empty when the url has no such part
HostOf(url) ==
    LET parts == Split(url, "/")
    IN  IF Len(parts) >= 3 THEN parts[3] ELSE <<>>

\* C1: for a request with zero tabs the handler returns an empty list and
\* calls neither the embedding nor the naming collaborator.
C1_EmptyInput ==
    tabs = <<>> =>
        /\ embedCalls = 0
        /\ chatCalls = 0
        /\ pc \in {"start", "responded"}
        /\ results = <<>>

C1_Witness == tabs = <<>> /\ pc = "responded"

\* C2: every result's name has at most 30 characters, whether it came from
\* the chat model's answer or from the fallback.
C2_NameLength ==
    \A i \in 1..Len(results) : Len(results[i].name) <= 30

\* C3: a failure of the naming collaborator never ends the request: the only
\* request-level failure is a failure of the embedding collaborator.
C3_NamingNeverFailsRequest ==
    pc = "failed" => error = "EmbeddingUnavailable"

\* C4: whenever the naming collaborator fails for a cluster (it raises, or
\* its answer is empty), the cluster's name is the host of the first member's
\* url.
C4_FallbackOnFailure ==
    \A i \in 1..Len(results) :
        (chatLog[i].raised \/ Strip(chatLog[i].content, Whitespace) = <<>>)
            => results[i].name = HostOf(ClusterOf(results[i]).tabs[1].url)

\* C5: if the embedder returns a number of vectors different from the number
\* of tabs, no result list is returned.
C5_MismatchFails ==
    (pc = "responded" /\ tabs # <<>>) =>
        /\ Len(embeddings) = Len(tabs)
        /\ Len(labels) = Len(tabs)

\* C6: the result at 0-based position i of the result list has the color at
\* index i modulo 8 of the palette.
C6_ColorByPosition ==
    \A i \in 1..Len(results) :
        results[i].color =
            <<"blue", "green", "yellow", "purple", "pink", "cyan", "orange", "red">>[((i - 1) % 8) + 1]

\* C7: for a request with pairwise distinct tabIds, no tabId occurs twice in
\* the results taken together, and every tabId in them is a tabId of the
\* request.
C7_Partition ==
    DistinctIds(tabs) =>
        /\ \A i, j \in 1..Len(AllResultIds) : i # j => AllResultIds[i] # AllResultIds[j]
        /\ \A i \in 1..Len(AllResultIds) :
              \E t \in 1..Len(tabs) : tabs[t].tabId = AllResultIds[i]

C7_Witness == pc = "responded" /\ DistinctIds(tabs) /\ Len(results) = 2

\* C8: no result has fewer than 2 tabIds, also when the only tab of a
\* request got label 0.
C8_MinSize ==
    \A i \in 1..Len(results) : Len(results[i].tabIds) >= 2

C8_Witness ==
    /\ pc = "responded"
    /\ Len(tabs) = 1
    /\ labels = <<0>>
    /\ Len(clusters) = 1
    /\ results = <<>>

\* C9: a tab labelled noise (-1) is in the tabIds of no result (tabIds being
\* unique within the request), and no result is made for the noise label.
C9_NoiseExcluded ==
    /\ \A i \in 1..Len(results) : results[i].id[2] # -1
    /\ DistinctIds(tabs) =>
          \A t \in 1..Min(Len(tabs), Len(labels)) :
              labels[t] = -1 => tabs[t].tabId \notin Range(AllResultIds)

C9_Witness ==
    /\ pc = "responded"
    /\ DistinctIds(tabs)
    /\ Len(results) >= 1
    /\ \E t \in 1..Min(Len(tabs), Len(labels)) : labels[t] = -1

\* cosine distance of a and b below 0.4 / above 0.4: cosine above / below 3/5
CosBelow(a, b) ==
    Dot(a, b) > 0 /\ 25 * Dot(a, b) * Dot(a, b) > 9 * Dot(a, a) * Dot(b, b)

CosAbove(a, b) ==
    Dot(a, b) < 0 \/ 25 * Dot(a, b) * Dot(a, b) < 9 * Dot(a, a) * Dot(b, b)

\* tab f is far from every other tab and the other tabs, at least two, are
\* pairwise near
Scenario(f) ==
    /\ Len(embeddings) = Len(tabs)
    /\ DistinctIds(tabs)
    /\ f \in 1..Len(tabs)
    /\ Len(tabs) >= 3
    /\ \A i, j \in 1..Len(tabs) \ {f} : i # j => CosBelow(embeddings[i], embeddings[j])
    /\ \A i \in 1..Len(tabs) \ {f} : CosAbove(embeddings[f], embeddings[i])

RECURSIVE IdsWithout(_, _, _)
IdsWithout(ts, f, i) ==
    IF i > Len(ts) THEN <<>>
    ELSE (IF i = f THEN <<>> ELSE <<ts[i].tabId>>) \o IdsWithout(ts, f, i + 1)

\* C10: when a group of at least two tabs is pairwise nearer than 0.4 and one
\* further tab is farther than 0.4 from every other tab, the response has
\* exactly one result, whose tabIds are those of the group in input order,
\* and the far tab is in no result.
C10_EndToEnd ==
    pc = "responded" =>
        \A f \in 1..Len(tabs) :
            Scenario(f) =>
                /\ Len(results) = 1
                /\ results[1].tabIds = IdsWithout(tabs, f, 1)
                /\ tabs[f].tabId \notin Range(AllResultIds)

C10_Witness ==
    /\ pc = "responded"
    /\ Len(tabs) = 4
    /\ \E f \in 1..Len(tabs) : Scenario(f)
    /\ Len(results) = 1

====
